---- MODULE Spec2Model ----
(***************************************************************************)
(* CampusPulse backend: the video forensics worker (app/forensics.py), the *)
(* submission store (app/crud.py, app/models.py) and the request handlers  *)
(* that write submissions (app/api/submissions.py, app/api/admin.py).      *)
(*                                                                         *)
(* Confidences are exact rationals in [0,1], held as integers in units of  *)
(* 1/6000 (Conf(90) is 0.9), so that an average over up to six results is  *)
(* an exact integer division.                                              *)
(***************************************************************************)
EXTENDS Integers, Sequences, FiniteSets, TLC

\* ------------------------------------------------------------------ bounds
MaxJobs == 2            \* jobs ever put on the forensics queue
MaxRequests == 2        \* update and delete requests ever served by the API

Workers == {"w1", "w2"}
\* The submissions: every property below is about one submission's record,
\* job and scratch file.
SubmissionIds == {1}
\* An id no submission has: the jobs whose submission is not found.
UnknownId == 0
JobIds == SubmissionIds \cup {UnknownId}

\* ------------------------------------------------------------- value model
Conf(pct) == pct * 60
One == Conf(100)

\* Optional values: None is the empty set, Some(x) the singleton.
None == {}
Some(x) == {x}
IsSet(o) == o # {}
The(o) == CHOOSE x \in o : TRUE

\* --------------------------------------------------------------- detectors
\* The tests list of analyze_video, in call order.
Tests ==
  << "video_hash_analysis", "re_encoding_detection", "optical_flow_analysis",
     "histogram_variance_analysis", "metadata_analysis" >>
NumTests == Len(Tests)

\* Confidence each detector reports with an authentic / a suspicious verdict.
AuthenticConfidence == << Conf(90), Conf(70), Conf(80), Conf(70), Conf(80) >>
SuspiciousConfidence == << Conf(60), Conf(40), Conf(60), Conf(50), Conf(40) >>

\* The videos a job may point at. A detector is a deterministic function of
\* the downloaded file, so a video fixes what each detector finds:
\* out is "authentic", "suspicious", "error" (the detector's own except
\* branch) or "raise" (the call itself raises); flags are details.flags.
D(out, flags) == [out |-> out, flags |-> flags]
Videos == {"clean", "edited", "corrupt"}
VideoProfile(v) ==
  CASE v = "clean" ->
         << D("authentic", {}), D("authentic", {}), D("authentic", {}),
            D("authentic", {}), D("authentic", {}) >>
    [] v = "edited" ->
         << D("raise", {}),
            D("suspicious", {"old_codec_detected", "low_bitrate_detected"}),
            D("authentic", {}), D("error", {}),
            D("suspicious", {"missing_creation_time"}) >>
    [] v = "corrupt" ->
         << D("error", {}), D("error", {}), D("error", {}),
            D("error", {}), D("error", {}) >>

\* The dict a detector returns (or the one analyze_video builds when the
\* call raises: test.__name__ is the method name, with its underscore).
RaisedName(i) == "_" \o Tests[i]
DetectorResult(i, d) ==
  CASE d.out = "authentic" ->
         [test_name |-> Tests[i], verdict |-> "authentic",
          confidence |-> AuthenticConfidence[i], flags |-> d.flags]
    [] d.out = "suspicious" ->
         [test_name |-> Tests[i], verdict |-> "suspicious",
          confidence |-> SuspiciousConfidence[i], flags |-> d.flags]
    [] d.out = "error" ->
         [test_name |-> Tests[i], verdict |-> "error",
          confidence |-> 0, flags |-> {}]
    [] d.out = "raise" ->
         [test_name |-> RaisedName(i), verdict |-> "error",
          confidence |-> 0, flags |-> {}]

\* ---------------------------------------------------------------- combiner
\* flags.extend(...): the flags of a suspicious result are added to those
\* collected so far (they do not replace them); list(set(flags)) makes the
\* collection a set.
Overwrite(flags, new) == new
Extend(flags, new) == flags \cup new

\* The accumulation loop of _combine_test_results over test_results[1..n].
RECURSIVE Tally(_, _)
Tally(rs, n) ==
  IF n = 0
  THEN [authentic_count |-> 0, suspicious_count |-> 0, error_count |-> 0,
        total_confidence |-> 0, valid_tests |-> 0, flags |-> {}]
  ELSE LET t == Tally(rs, n - 1)
           r == rs[n]
       IN CASE r.verdict = "authentic" ->
                 [t EXCEPT !.authentic_count = @ + 1,
                           !.total_confidence = @ + r.confidence,
                           !.valid_tests = @ + 1]
            [] r.verdict = "suspicious" ->
                 [t EXCEPT !.suspicious_count = @ + 1,
                           !.total_confidence = @ + r.confidence,
                           !.valid_tests = @ + 1,
                           !.flags = Extend(@, r.flags)]
            [] OTHER ->
                 [t EXCEPT !.error_count = @ + 1]

\* total_confidence / valid_tests: the mean over the results that were
\* counted as authentic or suspicious (not over all results, and not the
\* plain sum).
AverageOverAll(t) ==
  IF t.valid_tests > 0
  THEN t.total_confidence \div (t.valid_tests + t.error_count) ELSE 0
SumConfidence(t) == t.total_confidence
Average(t) ==
  IF t.valid_tests > 0 THEN t.total_confidence \div t.valid_tests ELSE 0

\* The verdict rules: error only when errors are MORE than half, suspicious
\* only when suspicious results OUTNUMBER the authentic ones.
OverallVerdictHalfErrors(t, total) ==
  IF 2 * t.error_count >= total THEN "error"
  ELSE IF t.suspicious_count > t.authentic_count THEN "suspicious"
  ELSE IF t.suspicious_count > 0 THEN "flagged"
  ELSE "authentic"
OverallVerdictTieSuspicious(t, total) ==
  IF 2 * t.error_count > total THEN "error"
  ELSE IF t.suspicious_count >= t.authentic_count THEN "suspicious"
  ELSE IF t.suspicious_count > 0 THEN "flagged"
  ELSE "authentic"
OverallVerdict(t, total) ==
  IF 2 * t.error_count > total THEN "error"
  ELSE IF t.suspicious_count > t.authentic_count THEN "suspicious"
  ELSE IF t.suspicious_count > 0 THEN "flagged"
  ELSE "authentic"

CombineTestResults(test_results) ==
  LET t == Tally(test_results, Len(test_results))
      v == OverallVerdict(t, Len(test_results))
  IN [overall_verdict |-> v,
      confidence |-> IF v = "error" THEN 0 ELSE Average(t),
      flags |-> t.flags,
      test_summary |->
        [authentic_tests |-> t.authentic_count,
         suspicious_tests |-> t.suspicious_count,
         error_tests |-> t.error_count,
         total_tests |-> Len(test_results)]]

\* ------------------------------------------------- confidence as a float
\* total_confidence and the confidences are Python floats (IEEE 754 binary64,
\* round to nearest, ties to even). A float x with 0 <= x < 8 is the integer
\* x * 2^54, held as three limbs << high, middle, low >> in base 2^20; every
\* float that is 0 or at least 0.25 is such an integer.
Limb == 1048576
Zero == << 0, 0, 0 >>

\* The float nearest to each confidence literal of the detectors.
Float(c) ==
  CASE c = Conf(0) -> Zero
    [] c = Conf(40) -> << 6553, 629145, 629146 >>
    [] c = Conf(50) -> << 8192, 0, 0 >>
    [] c = Conf(60) -> << 9830, 419430, 419430 >>
    [] c = Conf(70) -> << 11468, 838860, 838860 >>
    [] c = Conf(80) -> << 13107, 209715, 209716 >>
    [] c = Conf(85) -> << 13926, 419430, 419430 >>
    [] c = Conf(90) -> << 14745, 629145, 629146 >>
    [] c = Conf(95) -> << 15564, 838860, 838860 >>
    [] c = Conf(100) -> << 16384, 0, 0 >>

Carry(x) ==
  LET c1 == x[3] \div Limb
      c2 == (x[2] + c1) \div Limb
  IN << x[1] + c2, (x[2] + c1) % Limb, x[3] % Limb >>

\* The spacing of the floats around x, in units of 2^-54: 1 in [0.25, 0.5),
\* 2 in [0.5, 1), 4 in [1, 2), 8 in [2, 4), 16 in [4, 8).
Spacing(x) ==
  IF x[1] >= 65536 THEN 16
  ELSE IF x[1] >= 32768 THEN 8
  ELSE IF x[1] >= 16384 THEN 4
  ELSE IF x[1] >= 8192 THEN 2
  ELSE 1

\* The float nearest to x + rho / n (0 <= rho < n), ties to even.
Nearest(x, n, rho) ==
  LET q == Spacing(x)
      r == x[3] % q
      below == x[3] - r
      up == \/ 2 * (r * n + rho) > q * n
            \/ 2 * (r * n + rho) = q * n /\ (below \div q) % 2 = 1
  IN Carry(<< x[1], x[2], below + (IF up THEN q ELSE 0) >>)

\* a + b and x / n of floats.
FloatAdd(a, b) ==
  Nearest(Carry(<< a[1] + b[1], a[2] + b[2], a[3] + b[3] >>), 1, 0)
FloatDiv(x, n) ==
  LET t2 == (x[1] % n) * Limb + x[2]
      t3 == (t2 % n) * Limb + x[3]
  IN Nearest(<< x[1] \div n, t2 \div n, t3 \div n >>, n, t3 % n)

\* total_confidence as the loop of _combine_test_results accumulates it, in
\* list order, and the confidence returned.
RECURSIVE FloatTotal(_, _)
FloatTotal(rs, n) ==
  IF n = 0 THEN Zero
  ELSE IF rs[n].verdict \in {"authentic", "suspicious"}
       THEN FloatAdd(FloatTotal(rs, n - 1), Float(rs[n].confidence))
       ELSE FloatTotal(rs, n - 1)
FloatConfidence(rs) ==
  LET t == Tally(rs, Len(rs))
  IN IF OverallVerdict(t, Len(rs)) = "error" \/ t.valid_tests = 0 THEN Zero
     ELSE FloatDiv(FloatTotal(rs, Len(rs)), t.valid_tests)

\* ------------------------------------------------------------------- state
VARIABLES
  submissions,       \* the submissions table: id -> None, or Some(row)
  forensics_logs,    \* the forensics_logs table, in insertion order
  forensics_queue,   \* the jobs waiting on the 'forensics' queue
  temp_dir,          \* scratch files: submission id -> "absent"|"partial"|"complete"
  now,               \* the clock
  pc,                \* each worker's position in analyze_video_forensics
  job,               \* each worker's current job (submission_id, video_url)
  db,                \* each worker's session: "closed" (none open), "open", "rolled_back"
  test_results,      \* each worker's test_results list
  analysis_results,  \* each worker's analysis_results dict
  exc,               \* each worker: an exception was raised in the job's try block
  jobs_enqueued,     \* jobs put on the queue so far
  requests_served    \* write requests served so far

vars ==
  << submissions, forensics_logs, forensics_queue, temp_dir, now, pc, job, db,
     test_results, analysis_results, exc, jobs_enqueued, requests_served >>

worker_vars == << pc, job, db, test_results, analysis_results, exc >>
store_vars == << submissions, forensics_logs, now >>

NoJob == [submission_id |-> 0, video_url |-> "none"]

\* analysis_results as analyze_video initialises it.
InitialResults ==
  [overall_verdict |-> "authentic", confidence |-> 0, flags |-> {},
   tests_performed |-> << >>, test_summary |-> None, error |-> None]

Init ==
  /\ submissions = [s \in SubmissionIds |-> None]
  /\ forensics_logs = << >>
  /\ forensics_queue = << >>
  /\ temp_dir = [s \in SubmissionIds |-> "absent"]
  /\ now = 0
  /\ pc = [w \in Workers |-> "idle"]
  /\ job = [w \in Workers |-> NoJob]
  /\ db = [w \in Workers |-> "closed"]
  /\ test_results = [w \in Workers |-> << >>]
  /\ analysis_results = [w \in Workers |-> InitialResults]
  /\ exc = [w \in Workers |-> FALSE]
  /\ jobs_enqueued = 0
  /\ requests_served = 0

\* ------------------------------------------------------------ crud (store)
\* crud.get_submission: the row, if there is one.
Exists(table, s) == s \in DOMAIN table /\ IsSet(table[s])
Row(table, s) == The(table[s])

\* The column defaults of models.Submission, as crud.create_submission
\* leaves them (66 stands for calculate_priority_score of the payload).
NewSubmission(v) ==
  [status |-> "pending", priority_score |-> 66,
   verification_status |-> "pending", forensics_data |-> None,
   video_url |-> v, processed_at |-> None]

\* schemas.SubmissionUpdate: each field unset (None) or set (Some(value)).
NoUpdate ==
  [status |-> None, priority_score |-> None, verification_status |-> None,
   forensics_data |-> None]
FieldsSet(upd) == {f \in DOMAIN upd : IsSet(upd[f])}

\* The body of crud.update_submission on a row that exists, at time t:
\* setattr for every field set, and processed_at when the update's status
\* is "completed" (updated_at, which no other code reads, is left out).
CompletedAtAlways(upd, row, t) == Some(t)
CompletedAt(upd, row, t) ==
  IF upd.status = Some("completed") THEN Some(t) ELSE row.processed_at

ApplyUpdateAll(row, upd, t) ==
  [status |-> IF IsSet(upd.status) THEN The(upd.status) ELSE "pending",
   priority_score |->
     IF IsSet(upd.priority_score) THEN The(upd.priority_score) ELSE 0,
   verification_status |->
     IF IsSet(upd.verification_status) THEN The(upd.verification_status)
     ELSE "pending",
   forensics_data |-> upd.forensics_data,
   video_url |-> row.video_url,
   processed_at |-> CompletedAt(upd, row, t)]
ApplyUpdate(row, upd, t) ==
  [status |-> IF IsSet(upd.status) THEN The(upd.status) ELSE row.status,
   priority_score |->
     IF IsSet(upd.priority_score) THEN The(upd.priority_score)
     ELSE row.priority_score,
   verification_status |->
     IF IsSet(upd.verification_status) THEN The(upd.verification_status)
     ELSE row.verification_status,
   forensics_data |->
     IF IsSet(upd.forensics_data) THEN upd.forensics_data
     ELSE row.forensics_data,
   video_url |-> row.video_url,
   processed_at |-> CompletedAt(upd, row, t)]

\* crud.update_submission: the table after the call (unchanged when the row
\* does not exist and the call returns None).
UpdateSubmission(table, s, upd, t) ==
  IF Exists(table, s)
  THEN [table EXCEPT ![s] = Some(ApplyUpdate(Row(table, s), upd, t))]
  ELSE table

\* datetime.utcnow() is a clock that has advanced whenever it is read: the
\* model advances it at the readings that are stored (processed_at).
Reads(table, s, upd) ==
  IF Exists(table, s) /\ upd.status = Some("completed") THEN 1 ELSE 0

\* ------------------------------------------------------- request handlers
\* A report an administrator writes by hand through the update endpoints.
ManualReport ==
  [overall_verdict |-> "manual", confidence |-> One, flags |-> {},
   test_summary |-> None, tests_performed |-> << >>]

\* The update payloads the requests carry: each status alone (all a
\* non-admin may send), a manual review, and the update of
\* tests/test_submissions.py.
StatusUpdates ==
  {[NoUpdate EXCEPT !.status = Some(st)] :
     st \in {"pending", "processing", "completed", "failed"}}
ReviewUpdate ==
  [NoUpdate EXCEPT !.verification_status = Some("rejected"),
                   !.priority_score = Some(50)]
TestUpdate ==
  [NoUpdate EXCEPT !.status = Some("completed"),
                   !.verification_status = Some("verified"),
                   !.forensics_data = Some(ManualReport)]
Updates == StatusUpdates \cup {ReviewUpdate, TestUpdate}
Requesters == {"admin", "owner", "other"}

\* POST /submissions: crud.create_submission commits the new row; the
\* background task queue_forensics_analysis only writes a log line.
CreateSubmission(s, v) ==
  /\ ~Exists(submissions, s)
  /\ submissions' = [submissions EXCEPT ![s] = Some(NewSubmission(v))]
  /\ UNCHANGED << forensics_logs, forensics_queue, temp_dir, now, worker_vars,
                  jobs_enqueued, requests_served >>

\* PUT /submissions/{id}: an admin may set any field; any other user only
\* the status of a submission they own. 403 and 404 change nothing.
PutAllowed(who, upd, s) ==
  \/ who = "admin"
  \/ /\ Exists(submissions, s)
     /\ who = "owner"
     /\ FieldsSet(upd) \subseteq {"status"}

PutSubmission(s, upd, who) ==
  /\ requests_served < MaxRequests
  /\ PutAllowed(who, upd, s)
  /\ Exists(submissions, s)
  /\ submissions' = UpdateSubmission(submissions, s, upd, now + 1)
  /\ now' = now + Reads(submissions, s, upd)
  /\ requests_served' = requests_served + 1
  /\ UNCHANGED << forensics_logs, forensics_queue, temp_dir, worker_vars,
                  jobs_enqueued >>

\* DELETE /submissions/{id}: the soft delete, by the owner or an admin.
DeletionUpdate == [NoUpdate EXCEPT !.status = Some("deleted")]

DeleteSubmission(s, who) ==
  /\ requests_served < MaxRequests
  /\ Exists(submissions, s)
  /\ who \in {"admin", "owner"}
  /\ submissions' = UpdateSubmission(submissions, s, DeletionUpdate, now + 1)
  /\ now' = now + Reads(submissions, s, DeletionUpdate)
  /\ requests_served' = requests_served + 1
  /\ UNCHANGED << forensics_logs, forensics_queue, temp_dir, worker_vars,
                  jobs_enqueued >>

\* POST /bulk/submissions/update (admin): one crud.update_submission per
\* id of the list, in order; an id without a row is reported and skipped.
RECURSIVE BulkApply(_, _, _, _)
BulkApply(table, ids, upd, t) ==
  IF ids = << >> THEN table
  ELSE BulkApply(UpdateSubmission(table, Head(ids), upd, t + 1), Tail(ids),
                 upd, t + Reads(table, Head(ids), upd))

RECURSIVE BulkReads(_, _, _)
BulkReads(table, ids, upd) ==
  IF ids = << >> THEN 0
  ELSE Reads(table, Head(ids), upd) + BulkReads(table, Tail(ids), upd)

MaxBulk == 2
BulkIds == UNION {[1..n -> SubmissionIds] : n \in 1..MaxBulk}

BulkUpdateSubmissions(ids, upd) ==
  /\ requests_served < MaxRequests
  /\ submissions' = BulkApply(submissions, ids, upd, now)
  /\ now' = now + BulkReads(submissions, ids, upd)
  /\ requests_served' = requests_served + 1
  /\ UNCHANGED << forensics_logs, forensics_queue, temp_dir, worker_vars,
                  jobs_enqueued >>

\* ------------------------------------------------------------------ queue
\* A job (submission_id, video_url) arrives on the 'forensics' queue. The
\* queue delivers at least once, so the same job may arrive again.
Enqueue(s) ==
  /\ jobs_enqueued < MaxJobs
  /\ s = UnknownId \/ Exists(submissions, s)
  /\ forensics_queue' =
       Append(forensics_queue,
              [submission_id |-> s,
               video_url |-> IF s = UnknownId THEN "none"
                             ELSE Row(submissions, s).video_url])
  /\ jobs_enqueued' = jobs_enqueued + 1
  /\ UNCHANGED << store_vars, temp_dir, worker_vars, requests_served >>

\* ------------------------------------------------- analyze_video_forensics
Sub(w) == job[w].submission_id

\* Where an exception raised inside the job's try block continues: in the
\* job's except Exception clause (were there none, it would leave the job
\* function).
JobExceptEscapes == "escaped"
JobExceptTarget == "except"

\* worker.work() hands the next job to an idle worker, which opens its
\* session (db = SessionLocal()).
StartJob(w) ==
  /\ pc[w] = "idle"
  /\ forensics_queue # << >>
  /\ job' = [job EXCEPT ![w] = Head(forensics_queue)]
  /\ forensics_queue' = Tail(forensics_queue)
  /\ db' = [db EXCEPT ![w] = "open"]
  /\ test_results' = [test_results EXCEPT ![w] = << >>]
  /\ analysis_results' = [analysis_results EXCEPT ![w] = InitialResults]
  /\ exc' = [exc EXCEPT ![w] = FALSE]
  /\ pc' = [pc EXCEPT ![w] = "lookup"]
  /\ UNCHANGED << store_vars, temp_dir, jobs_enqueued, requests_served >>

\* get_submission: the query raises, finds no row (return), or finds it.
GetSubmission(w) ==
  /\ pc[w] = "lookup"
  /\ \E ok \in BOOLEAN :
       /\ pc' = [pc EXCEPT ![w] =
                   IF ~ok THEN JobExceptTarget
                   ELSE IF Exists(submissions, Sub(w)) THEN "download"
                   ELSE "finally"]
       /\ exc' = [exc EXCEPT ![w] = ~ok]
  /\ UNCHANGED << store_vars, forensics_queue, temp_dir, job, db, test_results,
                  analysis_results, jobs_enqueued, requests_served >>

\* analysis_results when analyze_video gives up: overall_verdict "error"
\* and an error message; every other key as it was.
DownloadFailed == "Failed to download video"
ErrorResults(r, message) ==
  [r EXCEPT !.overall_verdict = "error", !.error = Some(message)]

\* Where analyze_video continues when _download_video returned None: it
\* returns its error result to the job (it does not download again).
RetryDownload == "download"
AfterDownloadFailure == "persist"

\* _download_video, first half: requests.get and raise_for_status fail
\* (return None, so analyze_video returns its error result), or succeed and
\* open(video_path, 'wb') creates or truncates the scratch file.
DownloadOpen(w) ==
  /\ pc[w] = "download"
  /\ \E ok \in BOOLEAN :
       IF ok
       THEN /\ temp_dir' = [temp_dir EXCEPT ![Sub(w)] = "partial"]
            /\ pc' = [pc EXCEPT ![w] = "write"]
            /\ UNCHANGED analysis_results
       ELSE /\ analysis_results' =
                 [analysis_results EXCEPT ![w] = ErrorResults(@, DownloadFailed)]
            /\ pc' = [pc EXCEPT ![w] = AfterDownloadFailure]
            /\ UNCHANGED temp_dir
  /\ UNCHANGED << store_vars, forensics_queue, job, db, test_results, exc,
                  jobs_enqueued, requests_served >>

\* _download_video, second half: the chunks are written and the path is
\* returned, or a write fails part-way and None is returned (the except
\* branch does not remove what was written).
DownloadWrite(w) ==
  /\ pc[w] = "write"
  /\ \E ok \in BOOLEAN :
       IF ok
       THEN /\ temp_dir' = [temp_dir EXCEPT ![Sub(w)] = "complete"]
            /\ pc' = [pc EXCEPT ![w] = "tests"]
            /\ UNCHANGED analysis_results
       ELSE /\ UNCHANGED temp_dir
            /\ analysis_results' =
                 [analysis_results EXCEPT ![w] = ErrorResults(@, DownloadFailed)]
            /\ pc' = [pc EXCEPT ![w] = AfterDownloadFailure]
  /\ UNCHANGED << store_vars, forensics_queue, job, db, test_results, exc,
                  jobs_enqueued, requests_served >>

\* What detector i finds in the scratch file: its finding for the video
\* when the file is whole, an error when the file is gone, either when the
\* file is being rewritten.
Findings(w, i) ==
  LET whole == VideoProfile(job[w].video_url)[i]
      file == temp_dir[Sub(w)]
  IN CASE file = "complete" -> {whole}
       [] file = "partial" -> {whole, D("error", {})}
       [] OTHER -> {D("error", {})}

\* Where the test loop continues after a detector call that raised: the
\* try is inside the loop, so with the next detector (a try around the loop
\* would end the loop there).
AfterRaiseAbort(i) == "combine"
AfterRaise(i) == IF i = NumTests THEN "combine" ELSE "tests"

\* One pass of the test loop: call the next detector; append its result and
\* its test_name, or, when the call raises, append an error result.
RunTest(w) ==
  /\ pc[w] = "tests"
  /\ Len(test_results[w]) < NumTests
  /\ LET i == Len(test_results[w]) + 1 IN
       \E d \in Findings(w, i) :
         /\ test_results' =
              [test_results EXCEPT ![w] = Append(@, DetectorResult(i, d))]
         /\ analysis_results' =
              [analysis_results EXCEPT ![w].tests_performed =
                 IF d.out = "raise" THEN @ ELSE Append(@, Tests[i])]
         /\ pc' = [pc EXCEPT ![w] =
                     IF d.out = "raise" THEN AfterRaise(i)
                     ELSE IF i = NumTests THEN "combine" ELSE "tests"]
  /\ UNCHANGED << store_vars, forensics_queue, temp_dir, job, db, exc,
                  jobs_enqueued, requests_served >>

\* analysis_results.update(self._combine_test_results(test_results))
Combine(w) ==
  /\ pc[w] = "combine"
  /\ LET c == CombineTestResults(test_results[w]) IN
       analysis_results' =
         [analysis_results EXCEPT ![w] =
            [@ EXCEPT !.overall_verdict = c.overall_verdict,
                      !.confidence = c.confidence,
                      !.flags = c.flags,
                      !.test_summary = Some(c.test_summary)]]
  /\ pc' = [pc EXCEPT ![w] = "cleanup"]
  /\ UNCHANGED << store_vars, forensics_queue, temp_dir, job, db, test_results,
                  exc, jobs_enqueued, requests_served >>

\* _cleanup_temp_file: unlink the file if it exists; a failure to unlink
\* is logged and swallowed.
CleanupTempFile(w) ==
  /\ pc[w] = "cleanup"
  /\ \E ok \in BOOLEAN :
       temp_dir' = [temp_dir EXCEPT ![Sub(w)] = IF ok THEN "absent" ELSE @]
  /\ pc' = [pc EXCEPT ![w] = "persist"]
  /\ UNCHANGED << store_vars, forensics_queue, job, db, test_results,
                  analysis_results, exc, jobs_enqueued, requests_served >>

\* The except branch of analyze_video: an exception raised after the test
\* loop, at the combiner call or at the cleanup call (one delivered to the
\* job from outside, as a job timeout is), ends the analysis with the error
\* result. The detectors and the loop catch what is raised inside them.
AnalyzeVideoExcept(w) ==
  /\ pc[w] \in {"combine", "cleanup"}
  /\ analysis_results' =
       [analysis_results EXCEPT ![w] = ErrorResults(@, "exception")]
  /\ pc' = [pc EXCEPT ![w] = "persist"]
  /\ UNCHANGED << store_vars, forensics_queue, temp_dir, job, db, test_results,
                  exc, jobs_enqueued, requests_served >>

\* The verdict -> verification_status table of the job, with its default
\* for a verdict the table does not have: "pending" (not "verified").
VerificationStatusLenient(verdict) ==
  CASE verdict \in {"suspicious", "flagged"} -> "flagged"
    [] verdict = "error" -> "pending"
    [] OTHER -> "verified"
VerificationStatus(verdict) ==
  CASE verdict = "authentic" -> "verified"
    [] verdict = "suspicious" -> "flagged"
    [] verdict = "flagged" -> "flagged"
    [] verdict = "error" -> "pending"
    [] OTHER -> "pending"

\* forensics_data as the job builds it from analysis_results (the timestamp
\* string is left out).
ForensicsData(r) ==
  [overall_verdict |-> r.overall_verdict, confidence |-> r.confidence,
   flags |-> r.flags, test_summary |-> r.test_summary,
   tests_performed |-> r.tests_performed]

\* The SubmissionUpdate the job passes to update_submission.
ResultUpdate(r) ==
  [NoUpdate EXCEPT
     !.forensics_data = Some(ForensicsData(r)),
     !.verification_status = Some(VerificationStatus(r.overall_verdict))]

\* update_submission(db, submission_id, update_data): the update is
\* committed by crud.update_submission itself, or the call raises and
\* nothing is written.
PersistResults(w) ==
  /\ pc[w] = "persist"
  /\ \E ok \in BOOLEAN :
       IF ok
       THEN /\ submissions' =
                 UpdateSubmission(submissions, Sub(w),
                                  ResultUpdate(analysis_results[w]), now + 1)
            /\ now' = now + Reads(submissions, Sub(w),
                                  ResultUpdate(analysis_results[w]))
            /\ pc' = [pc EXCEPT ![w] = "log"]
            /\ UNCHANGED exc
       ELSE /\ pc' = [pc EXCEPT ![w] = JobExceptTarget]
            /\ exc' = [exc EXCEPT ![w] = TRUE]
            /\ UNCHANGED << submissions, now >>
  /\ UNCHANGED << forensics_logs, forensics_queue, temp_dir, job, db,
                  test_results, analysis_results, jobs_enqueued,
                  requests_served >>

\* The ForensicsLog row of a run.
ForensicsLog(s, r) ==
  [submission_id |-> s, verdict |-> r.overall_verdict,
   confidence |-> r.confidence]

\* db.add(forensics_log): an INSERT of a new row; the rows the table has
\* stay (it is not an update of the submission's previous row).
ReplaceLog(logs, row) == << row >>
AddLog(logs, row) == Append(logs, row)

\* db.add(forensics_log); db.commit(): the row is inserted, or the commit
\* raises and the row is not.
LogAnalysis(w) ==
  /\ pc[w] = "log"
  /\ \E ok \in BOOLEAN :
       IF ok
       THEN /\ forensics_logs' =
                 AddLog(forensics_logs,
                        ForensicsLog(Sub(w), analysis_results[w]))
            /\ pc' = [pc EXCEPT ![w] = "finally"]
            /\ UNCHANGED exc
       ELSE /\ pc' = [pc EXCEPT ![w] = JobExceptTarget]
            /\ exc' = [exc EXCEPT ![w] = TRUE]
            /\ UNCHANGED forensics_logs
  /\ UNCHANGED << submissions, now, forensics_queue, temp_dir, job, db,
                  test_results, analysis_results, jobs_enqueued,
                  requests_served >>

\* except Exception: log the failure and db.rollback().
JobExcept(w) ==
  /\ pc[w] = "except"
  /\ db' = [db EXCEPT ![w] = "rolled_back"]
  /\ pc' = [pc EXCEPT ![w] = "finally"]
  /\ UNCHANGED << store_vars, forensics_queue, temp_dir, job, test_results,
                  analysis_results, exc, jobs_enqueued, requests_served >>

\* finally: db.close(). The job function returns and its locals are gone;
\* the worker is ready for the next job.
JobFinally(w) ==
  /\ pc[w] = "finally"
  /\ db' = [db EXCEPT ![w] = "closed"]
  /\ pc' = [pc EXCEPT ![w] = "idle"]
  /\ job' = [job EXCEPT ![w] = NoJob]
  /\ test_results' = [test_results EXCEPT ![w] = << >>]
  /\ analysis_results' = [analysis_results EXCEPT ![w] = InitialResults]
  /\ exc' = [exc EXCEPT ![w] = FALSE]
  /\ UNCHANGED << store_vars, forensics_queue, temp_dir, jobs_enqueued,
                  requests_served >>

\* ------------------------------------------------------------ specification
\* One step of worker w's job.
WorkerStep(w) ==
  \/ StartJob(w)
  \/ GetSubmission(w)
  \/ DownloadOpen(w)
  \/ DownloadWrite(w)
  \/ RunTest(w)
  \/ Combine(w)
  \/ CleanupTempFile(w)
  \/ AnalyzeVideoExcept(w)
  \/ PersistResults(w)
  \/ LogAnalysis(w)
  \/ JobExcept(w)
  \/ JobFinally(w)

\* The requests that update a submission.
UpdateRequest ==
  \/ \E s \in SubmissionIds, upd \in Updates, who \in Requesters :
       PutSubmission(s, upd, who)
  \/ \E s \in SubmissionIds, who \in Requesters : DeleteSubmission(s, who)
  \/ \E ids \in BulkIds, upd \in Updates : BulkUpdateSubmissions(ids, upd)

Intake ==
  \/ \E s \in SubmissionIds, v \in Videos : CreateSubmission(s, v)
  \/ \E s \in JobIds : Enqueue(s)

\* The API and one worker process.
Next ==
  \/ Intake
  \/ UpdateRequest
  \/ WorkerStep("w1")

Spec == Init /\ [][Next]_vars

\* Several worker processes on the same queue, no update requests.
NextWorkers ==
  \/ Intake
  \/ \E w \in Workers : WorkerStep(w)

SpecWorkers == Init /\ [][NextWorkers]_vars

\* ------------------------------------------- the combiner on any result list
\* _combine_test_results and the job's persistence as functions of their
\* input: worker w1 holds the job of a stored submission and is about to
\* call the combiner on a list of result dicts, or has been returned an
\* analysis_results dict with some overall_verdict.
MaxResults == 5         \* results in a list given to the combiner
R(verdict, confidence, flags) ==
  [test_name |-> "test", verdict |-> verdict, confidence |-> confidence,
   flags |-> flags]
\* Result dicts: authentic, suspicious (with details.flags), error, and one
\* whose verdict the combiner does not know.
ResultValues ==
  { R("authentic", Conf(80), {}), R("authentic", One, {}),
    R("suspicious", Conf(60), {"old_codec_detected"}),
    R("suspicious", Conf(40), {"missing_creation_time"}),
    R("error", 0, {}),
    R("inconclusive", Conf(50), {}) }
\* Five authentic results with confidences 0.9, 0.85, 0.9, 0.95, 0.8.
ScenarioA ==
  << R("authentic", Conf(90), {}), R("authentic", Conf(85), {}),
     R("authentic", Conf(90), {}), R("authentic", Conf(95), {}),
     R("authentic", Conf(80), {}) >>
ResultLists ==
  UNION {[1..n -> ResultValues] : n \in 0..MaxResults} \cup {ScenarioA}
ReturnedVerdicts ==
  {"authentic", "suspicious", "flagged", "error", "likely_authentic",
   "likely_fraudulent", "unknown"}

InitAnalysis ==
  /\ submissions = [s \in SubmissionIds |-> Some(NewSubmission("clean"))]
  /\ forensics_logs = << >>
  /\ forensics_queue = << >>
  /\ temp_dir = [s \in SubmissionIds |-> "complete"]
  /\ now = 0
  /\ job = [w \in Workers |->
              IF w = "w1" THEN [submission_id |-> 1, video_url |-> "clean"]
              ELSE NoJob]
  /\ db = [w \in Workers |-> IF w = "w1" THEN "open" ELSE "closed"]
  /\ exc = [w \in Workers |-> FALSE]
  /\ jobs_enqueued = 1
  /\ requests_served = 0
  /\ \/ /\ pc = [w \in Workers |-> IF w = "w1" THEN "combine" ELSE "idle"]
        /\ \E rs \in ResultLists :
             test_results = [w \in Workers |-> IF w = "w1" THEN rs ELSE << >>]
        /\ analysis_results = [w \in Workers |-> InitialResults]
     \/ /\ pc = [w \in Workers |-> IF w = "w1" THEN "persist" ELSE "idle"]
        /\ test_results = [w \in Workers |-> << >>]
        /\ \E v \in ReturnedVerdicts :
             analysis_results =
               [w \in Workers |->
                  IF w = "w1" THEN [InitialResults EXCEPT !.overall_verdict = v]
                  ELSE InitialResults]

NextAnalysis ==
  \/ Combine("w1")
  \/ CleanupTempFile("w1")
  \/ PersistResults("w1")

SpecAnalysis == InitAnalysis /\ [][NextAnalysis]_vars

\* ------------------------------------------------- the weighted-sum policy
\* determine_authenticity_verdict(fraud_score, forensics_data), which
\* tests/services/test_forensics.py imports from app.forensics and
\* app/forensics.py does not define: the verdict of a fraud score by the
\* fixed cut points 0.2, 0.5 and 0.8, each lower end included.
DetermineAuthenticityVerdictInclusive(fraud_score, forensics_data) ==
  IF fraud_score <= Conf(20) THEN "authentic"
  ELSE IF fraud_score <= Conf(50) THEN "likely_authentic"
  ELSE IF fraud_score <= Conf(80) THEN "suspicious"
  ELSE "likely_fraudulent"
DetermineAuthenticityVerdict(fraud_score, forensics_data) ==
  IF fraud_score < Conf(20) THEN "authentic"
  ELSE IF fraud_score < Conf(50) THEN "likely_authentic"
  ELSE IF fraud_score < Conf(80) THEN "suspicious"
  ELSE "likely_fraudulent"

\* The fraud scores, in steps of 0.01, and the forensics_data the caller
\* passes along with the score.
Scores == {Conf(p) : p \in 0..100}
Indicators == {{}, {"reencoding_detected"}, {"file_integrity"}}

\* Worker w1 has a fraud score and is about to determine the verdict.
InitVerdict ==
  /\ submissions = [s \in SubmissionIds |-> None]
  /\ forensics_logs = << >>
  /\ forensics_queue = << >>
  /\ temp_dir = [s \in SubmissionIds |-> "absent"]
  /\ now = 0
  /\ job = [w \in Workers |-> NoJob]
  /\ db = [w \in Workers |-> "closed"]
  /\ test_results = [w \in Workers |-> << >>]
  /\ exc = [w \in Workers |-> FALSE]
  /\ jobs_enqueued = 0
  /\ requests_served = 0
  /\ pc = [w \in Workers |-> IF w = "w1" THEN "score" ELSE "idle"]
  /\ \E f \in Scores, d \in Indicators :
       analysis_results =
         [w \in Workers |->
            IF w = "w1"
            THEN [fraud_score |-> f, forensics_data |-> d,
                  overall_verdict |-> "undetermined"]
            ELSE InitialResults]

DetermineVerdict(w) ==
  /\ pc[w] = "score"
  /\ analysis_results' =
       [analysis_results EXCEPT ![w].overall_verdict =
          DetermineAuthenticityVerdict(analysis_results[w].fraud_score,
                                       analysis_results[w].forensics_data)]
  /\ pc' = [pc EXCEPT ![w] = "scored"]
  /\ UNCHANGED << store_vars, forensics_queue, temp_dir, job, db, test_results,
                  exc, jobs_enqueued, requests_served >>

NextVerdict == DetermineVerdict("w1")

SpecVerdict == InitVerdict /\ [][NextVerdict]_vars

\* ================================================================ properties
Status(table, s) == Row(table, s).status
InFlight(w) == pc[w] \in {"download", "write", "tests", "combine", "cleanup"}
Found(w) == Sub(w) \in SubmissionIds /\ Exists(submissions, Sub(w))

\* C1: a submission's status never moves backward: from completed or failed
\* it does not become pending or processing, and from processing it does not
\* become pending.
C1_StatusNeverRegresses ==
  [][\A s \in SubmissionIds :
       Exists(submissions, s) =>
         /\ Status(submissions, s) \in {"completed", "failed"}
              => Status(submissions', s) \notin {"pending", "processing"}
         /\ Status(submissions, s) = "processing"
              => Status(submissions', s) # "pending"]_vars

\* C2: at most one analysis per submission is in flight at any time: two
\* workers are never both analysing the same submission.
C2_AtMostOneAnalysisInFlight ==
  \A w1, w2 \in Workers :
    (w1 # w2 /\ InFlight(w1) /\ InFlight(w2)) => Sub(w1) # Sub(w2)

\* C3: when a worker's run for a submission ends in failure (the analysis
\* gave the verdict error, or the job caught an exception), the submission's
\* verification_status as the run ends is pending.
RunFailed(w) == exc[w] \/ analysis_results[w].overall_verdict = "error"
C3_FailedRunLeavesPending ==
  [][\A w \in Workers :
       (pc[w] = "finally" /\ pc'[w] = "idle" /\ Found(w) /\ RunFailed(w))
         => Row(submissions', Sub(w)).verification_status = "pending"]_vars

\* C4: no operation takes a submission directly from pending to completed
\* or failed, and a worker that has claimed the job of a pending submission
\* and found it has set it to processing before the download starts.
C4_NoSkippingProcessing ==
  [][/\ \A s \in SubmissionIds :
          (Exists(submissions, s) /\ Status(submissions, s) = "pending")
            => Status(submissions', s) \notin {"completed", "failed"}
     /\ \A w \in Workers :
          (/\ pc[w] = "lookup" /\ pc'[w] = "download"
           /\ Status(submissions, Sub(w)) = "pending")
            => Status(submissions', Sub(w)) = "processing"]_vars

\* C5: when the worker has finished an analysis whose aggregation succeeded
\* (the combiner ran, the verdict is not error, both commits went through),
\* the submission is completed, has processed_at set and holds a report.
Succeeded(w) ==
  /\ pc[w] = "finally"
  /\ ~exc[w]
  /\ IsSet(analysis_results[w].test_summary)
  /\ analysis_results[w].overall_verdict # "error"
C5_SuccessIsCompleted ==
  \A w \in Workers :
    Succeeded(w) =>
      LET row == Row(submissions, Sub(w)) IN
        /\ row.status = "completed"
        /\ IsSet(row.processed_at)
        /\ IsSet(row.forensics_data)

\* C6: when the download failed, the run leaves the submission failed, with
\* no forensics report stored and verification_status pending.
AcquisitionFailed(w) ==
  /\ pc[w] = "finally"
  /\ ~exc[w]
  /\ analysis_results[w].error = Some(DownloadFailed)
C6_AcquisitionFailureIsFailed ==
  \A w \in Workers :
    AcquisitionFailed(w) =>
      LET row == Row(submissions, Sub(w)) IN
        /\ row.status = "failed"
        /\ row.forensics_data = None
        /\ row.verification_status = "pending"

\* C7: when every detector result has verdict error, the combined verdict
\* is error, the score is 0.0 and the flags contain "insufficient_data".
AllErrors(w) ==
  /\ pc[w] = "cleanup"
  /\ Len(test_results[w]) = NumTests
  /\ \A i \in 1..NumTests : test_results[w][i].verdict = "error"
C7_AllErrorsInsufficientData ==
  \A w \in Workers :
    AllErrors(w) =>
      /\ analysis_results[w].overall_verdict = "error"
      /\ analysis_results[w].confidence = 0
      /\ "insufficient_data" \in analysis_results[w].flags

\* C8: once analyze_video has returned, no scratch file of that submission
\* remains on disk.
C8_ScratchFileRemoved ==
  \A w \in Workers :
    pc[w] = "persist" => temp_dir[Sub(w)] = "absent"

\* C9: detectors are isolated: the combiner receives one result per
\* detector, in order; a detector whose call raised has an error result with
\* confidence 0.0, and every detector whose call returned is in
\* tests_performed.
Ran(w, i) == test_results[w][i].test_name = Tests[i]
Raised(w, i) == test_results[w][i].test_name = RaisedName(i)
C9_DetectorsIsolated ==
  \A w \in Workers :
    pc[w] = "combine" =>
      /\ Len(test_results[w]) = NumTests
      /\ \A i \in 1..NumTests :
           /\ Ran(w, i) \/ Raised(w, i)
           /\ Raised(w, i) =>
                /\ test_results[w][i].verdict = "error"
                /\ test_results[w][i].confidence = 0
      /\ analysis_results[w].tests_performed =
           SelectSeq(Tests,
                     LAMBDA name : \E i \in 1..NumTests :
                                     Tests[i] = name /\ Ran(w, i))
C9_Witness ==
  \E w \in Workers :
    /\ pc[w] = "combine"
    /\ \E i, j, k \in 1..NumTests :
         /\ Raised(w, i)
         /\ Ran(w, j) /\ test_results[w][j].verdict = "error"
         /\ i < k /\ Ran(w, k) /\ test_results[w][k].verdict # "error"

\* C10: no exception escapes the job: a worker in which one was raised is
\* in the job's except or finally clause, reaches finally with its session
\* rolled back, and is idle again only with the session closed.
C10_ExceptionsCaughtAtJobBoundary ==
  \A w \in Workers :
    /\ exc[w] => pc[w] \in {"except", "finally"}
    /\ (exc[w] /\ pc[w] = "finally") => db[w] = "rolled_back"
    /\ pc[w] = "idle" => (db[w] = "closed" /\ ~exc[w])
C10_Witness ==
  \E w \in Workers :
    /\ exc[w] /\ pc[w] = "finally" /\ db[w] = "rolled_back"
    /\ forensics_queue # << >>

\* The state of worker w's job that every step of w changes while its
\* analysis is running.
Position(w) == << pc[w], test_results[w], analysis_results[w] >>
\* The columns of a submission the forensics pipeline is responsible for.
Record(table, s) ==
  << Row(table, s).status, Row(table, s).verification_status,
     Row(table, s).forensics_data >>

\* C11: a job whose analysis is cut short by an exception delivered from
\* outside (the job's wall-clock timeout) leaves the submission failed and
\* its scratch file removed.
TimedOut(w) ==
  /\ pc[w] = "finally"
  /\ ~exc[w]
  /\ Found(w)
  /\ analysis_results[w].error = Some("exception")
C11_TimeoutIsFailedAndCleaned ==
  \A w \in Workers :
    TimedOut(w) =>
      /\ Row(submissions, Sub(w)).status = "failed"
      /\ temp_dir[Sub(w)] = "absent"

\* C12: while a worker is analysing a submission, a step that is not that
\* worker's leaves the submission's status, verification_status and
\* forensics_data as they are.
C12_OnlyOwnerMutatesRecord ==
  [][\A w \in Workers :
       (InFlight(w) /\ Found(w) /\ Position(w)' = Position(w))
         => /\ Exists(submissions', Sub(w))
            /\ Record(submissions', Sub(w)) = Record(submissions, Sub(w))]_vars

\* C13: while a worker is between opening its scratch file and cleaning it
\* up, a step that is not that worker's neither rewrites nor removes the
\* file.
UsingFile(w) == pc[w] \in {"write", "tests", "combine", "cleanup"}
C13_ScratchFileExclusive ==
  [][\A w \in Workers :
       (UsingFile(w) /\ Position(w)' = Position(w))
         => temp_dir'[Sub(w)] = temp_dir[Sub(w)]]_vars

\* C14: every submission's status is pending, processing, completed or
\* failed, and its verification_status is pending, verified, flagged or
\* rejected.
C14_StatusDomains ==
  \A s \in SubmissionIds :
    Exists(submissions, s) =>
      /\ Row(submissions, s).status \in
           {"pending", "processing", "completed", "failed"}
      /\ Row(submissions, s).verification_status \in
           {"pending", "verified", "flagged", "rejected"}

\* C15: the step that creates a submission leaves it pending with
\* verification_status pending, and leaves a job (submission id, video
\* reference) for it on the queue.
Queued(queue, s, v) ==
  \E i \in 1..Len(queue) : queue[i] = [submission_id |-> s, video_url |-> v]
C15_CreatedPendingAndEnqueued ==
  [][\A s \in SubmissionIds :
       (~Exists(submissions, s) /\ Exists(submissions', s))
         => /\ Row(submissions', s).status = "pending"
            /\ Row(submissions', s).verification_status = "pending"
            /\ Queued(forensics_queue', s, Row(submissions', s).video_url)]_vars

\* C16: the forensics_logs table is append-only: no step changes or removes
\* a row it holds, and a run whose log commit goes through adds exactly one
\* row, the report of that run, after the rows of earlier analyses.
C16_ReportsAppendOnly ==
  [][/\ Len(forensics_logs') >= Len(forensics_logs)
     /\ SubSeq(forensics_logs', 1, Len(forensics_logs)) = forensics_logs
     /\ \A w \in Workers :
          (pc[w] = "log" /\ pc'[w] = "finally")
            => forensics_logs' =
                 Append(forensics_logs,
                        ForensicsLog(Sub(w), analysis_results[w]))]_vars
C16_Witness ==
  /\ Len(forensics_logs) = 2
  /\ forensics_logs[1].submission_id = forensics_logs[2].submission_id
  /\ forensics_logs[1].verdict # forensics_logs[2].verdict

\* C17: after the job has stored its result, verification_status is
\* verified exactly for the verdict authentic (never for another verdict,
\* likely_authentic included), flagged for suspicious and flagged, and
\* pending for error and for every other verdict.
C17_VerifiedOnlyWhenAuthentic ==
  \A w \in Workers :
    pc[w] = "log" =>
      LET v == analysis_results[w].overall_verdict
          vs == Row(submissions, Sub(w)).verification_status
      IN /\ vs = "verified" => v \in {"authentic", "likely_authentic"}
         /\ v = "authentic" => vs = "verified"
         /\ v \in {"suspicious", "flagged"} => vs = "flagged"
         /\ v \notin {"authentic", "likely_authentic", "suspicious", "flagged"}
              => vs = "pending"
C17_Witness ==
  \E w \in Workers :
    /\ pc[w] = "log"
    /\ analysis_results[w].overall_verdict = "likely_fraudulent"
    /\ Row(submissions, Sub(w)).verification_status = "pending"

\* C18: every result with verdict error has confidence 0.0, and the
\* combined confidence is the sum of the confidences of the results that
\* are not errors divided by their number (0.0 when the combined verdict is
\* error or no result is valid).
NonErrors(rs) == {i \in 1..Len(rs) : rs[i].verdict # "error"}
RECURSIVE SumOf(_, _)
SumOf(rs, S) ==
  IF S = {} THEN 0
  ELSE LET i == CHOOSE x \in S : TRUE
       IN rs[i].confidence + SumOf(rs, S \ {i})
MeanOfNonErrors(rs) ==
  IF NonErrors(rs) = {} THEN 0
  ELSE SumOf(rs, NonErrors(rs)) \div Cardinality(NonErrors(rs))
Combined(w) == IsSet(analysis_results[w].test_summary)
C19_ConfidenceInUnitInterval ==
  \A w \in Workers :
    Combined(w) =>
      /\ 0 <= analysis_results[w].confidence
      /\ analysis_results[w].confidence <= One
C19_Witness ==
  \E w \in Workers :
    /\ Combined(w)
    /\ Len(test_results[w]) >= 3
    /\ analysis_results[w].confidence = One

\* C20: when every result is authentic with confidence at least 0.8, the
\* combined verdict is authentic and the aggregate score is below 0.2.
AllAuthentic(w) ==
  /\ pc[w] = "cleanup"
  /\ test_results[w] # << >>
  /\ \A i \in 1..Len(test_results[w]) :
       /\ test_results[w][i].verdict = "authentic"
       /\ test_results[w][i].confidence >= Conf(80)
C20_AllAuthenticLowScore ==
  \A w \in Workers :
    AllAuthentic(w) =>
      /\ analysis_results[w].overall_verdict = "authentic"
      /\ analysis_results[w].confidence < Conf(20)

\* The results of a list with a verdict of S, and the results the combiner
\* counts as errors: those that are neither authentic nor suspicious.
Count(rs, S) == Cardinality({i \in 1..Len(rs) : rs[i].verdict \in S})
Errors(rs) == Len(rs) - Count(rs, {"authentic", "suspicious"})
Valid(r) == r.verdict \in {"authentic", "suspicious"}

\* C21: when errors are not more than half of the results, the verdict is
\* suspicious exactly when suspicious results outnumber authentic ones,
\* flagged exactly when there is a suspicious result but they do not
\* outnumber the authentic ones, and authentic exactly when there is none.
C21_MajorityVote ==
  \A w \in Workers :
    (pc[w] = "cleanup" /\ 2 * Errors(test_results[w]) <= Len(test_results[w]))
      => LET a == Count(test_results[w], {"authentic"})
             s == Count(test_results[w], {"suspicious"})
             v == analysis_results[w].overall_verdict
         IN /\ v = "suspicious" <=> s > a
            /\ v = "flagged" <=> (s > 0 /\ s <= a)
            /\ v = "authentic" <=> s = 0
C21_Witness ==
  \E w \in Workers :
    /\ pc[w] = "cleanup"
    /\ analysis_results[w].overall_verdict = "flagged"
    /\ Errors(test_results[w]) > 0
    /\ Count(test_results[w], {"suspicious"})
         = Count(test_results[w], {"authentic"})

\* C22: with more than half of the results errors the verdict is error and
\* the confidence 0.0; otherwise the verdict is not error and is the one the
\* combiner gives to the valid results alone.
C22_ErrorMajority ==
  \A w \in Workers :
    pc[w] = "cleanup" =>
      IF 2 * Errors(test_results[w]) > Len(test_results[w])
      THEN /\ analysis_results[w].overall_verdict = "error"
           /\ analysis_results[w].confidence = 0
      ELSE /\ analysis_results[w].overall_verdict # "error"
           /\ analysis_results[w].overall_verdict =
                CombineTestResults(SelectSeq(test_results[w], Valid))
                  .overall_verdict
C22_Witness ==
  \E w \in Workers :
    /\ pc[w] = "cleanup"
    /\ Len(test_results[w]) = 4
    /\ Errors(test_results[w]) = 2
    /\ analysis_results[w].overall_verdict = "suspicious"

\* C23: under the weighted-sum policy the verdict is fixed by the fraud
\* score: authentic below 0.2, likely_authentic in [0.2, 0.5), suspicious in
\* [0.5, 0.8), likely_fraudulent from 0.8.
C23_VerdictCutPoints ==
  \A w \in Workers :
    pc[w] = "scored" =>
      LET f == analysis_results[w].fraud_score
          v == analysis_results[w].overall_verdict
      IN /\ v = "authentic" <=> f < Conf(20)
         /\ v = "likely_authentic" <=> (Conf(20) <= f /\ f < Conf(50))
         /\ v = "suspicious" <=> (Conf(50) <= f /\ f < Conf(80))
         /\ v = "likely_fraudulent" <=> Conf(80) <= f
C23_Witness ==
  \E w \in Workers :
    /\ pc[w] = "scored"
    /\ analysis_results[w].fraud_score = Conf(50)
    /\ analysis_results[w].forensics_data # {}
    /\ analysis_results[w].overall_verdict = "suspicious"

\* C24: a failed download does not raise: the step of the worker that ends
\* the download without a file leads straight to the job's persistence with
\* verdict error, no detector run and tests_performed empty; and a worker
\* starts a download only when coming from the submission lookup (one
\* attempt per run).
C24_DownloadFailureIsErrorResult ==
  [][\A w \in Workers :
       /\ (pc'[w] = "download" /\ Position(w)' # Position(w))
            => pc[w] = "lookup"
       /\ (/\ pc[w] \in {"download", "write"}
           /\ Position(w)' # Position(w)
           /\ pc'[w] \notin {"write", "tests"})
            => /\ pc'[w] = "persist"
               /\ ~exc'[w]
               /\ analysis_results'[w].overall_verdict = "error"
               /\ analysis_results'[w].tests_performed = << >>
               /\ test_results'[w] = << >>]_vars
C24_Witness ==
  \E w \in Workers :
    /\ pc[w] = "persist"
    /\ analysis_results[w].error = Some(DownloadFailed)
    /\ analysis_results[w].tests_performed = << >>
    /\ temp_dir[Sub(w)] = "partial"

\* C25: once the combiner has run, the flags of the report are exactly the
\* flags raised by the detectors: the union of the flags of all results.
RaisedFlags(rs) == UNION {rs[i].flags : i \in 1..Len(rs)}
C25_FlagsAreUnion ==
  \A w \in Workers :
    Combined(w) => analysis_results[w].flags = RaisedFlags(test_results[w])
C25_Witness ==
  \E w \in Workers :
    /\ Combined(w)
    /\ Cardinality(analysis_results[w].flags) = 3
    /\ \E i, j \in 1..Len(test_results[w]) :
         /\ i # j
         /\ test_results[w][i].flags # {}
         /\ test_results[w][j].flags # {}

\* C27: processed_at is set, to the time of the update, exactly by an
\* update whose status is completed (the updates at which the clock is read
\* for it); every other step leaves it as it is, and no step makes a
\* submission completed without setting it.
C27_ProcessedAtOnCompletion ==
  [][\A s \in SubmissionIds :
       (Exists(submissions, s) /\ Exists(submissions', s))
         => LET old == Row(submissions, s)
                new == Row(submissions', s)
            IN /\ now' > now
                    => /\ new.status = "completed"
                       /\ new.processed_at = Some(now')
               /\ now' = now
                    => /\ new.processed_at = old.processed_at
                       /\ new.status = "completed"
                            => old.status = "completed"]_vars
C27_Witness ==
  \E s \in SubmissionIds :
    /\ Exists(submissions, s)
    /\ Row(submissions, s).status = "failed"
    /\ Row(submissions, s).processed_at = Some(now)
    /\ IsSet(Row(submissions, s).forensics_data)

\* C28: the submission update and the ForensicsLog insert of a run take
\* effect together: whenever no worker is between the two for a submission,
\* the submission carries forensics_data exactly when it has a ForensicsLog
\* row, and its overall_verdict is the verdict of the most recent row.
LogsOf(logs, s) == SelectSeq(logs, LAMBDA row : row.submission_id = s)
Persisting(s) == \E w \in Workers : Sub(w) = s /\ pc[w] = "log"
C28_ResultAndLogTogether ==
  \A s \in SubmissionIds :
    (Exists(submissions, s) /\ ~Persisting(s))
      => LET data == Row(submissions, s).forensics_data
             rows == LogsOf(forensics_logs, s)
         IN /\ IsSet(data) <=> rows # << >>
            /\ rows # << >>
                 => The(data).overall_verdict = rows[Len(rows)].verdict

\* C29: update_submission changes only the fields set in the update (and
\* processed_at when the status set is completed): applied to a stored row,
\* each update the handlers and the worker issue leaves every field it does
\* not set as it was; and the step in which the worker persists its result
\* leaves the submission's status and priority_score unchanged.
IssuedUpdates ==
  Updates \cup {DeletionUpdate}
          \cup {ResultUpdate(analysis_results[w]) : w \in Workers}
Unset(upd) == (DOMAIN NoUpdate) \ FieldsSet(upd)
C29_UpdateFrame ==
  /\ [](\A s \in SubmissionIds : \A upd \in IssuedUpdates :
          Exists(submissions, s)
            => LET row == Row(submissions, s)
                   new == ApplyUpdate(row, upd, now + 1)
               IN /\ \A f \in Unset(upd) : new[f] = row[f]
                  /\ new.video_url = row.video_url
                  /\ upd.status # Some("completed")
                       => new.processed_at = row.processed_at)
  /\ [][\A w \in Workers :
          (pc[w] = "persist" /\ pc'[w] = "log" /\ Found(w))
            => /\ Status(submissions', Sub(w)) = Status(submissions, Sub(w))
               /\ Row(submissions', Sub(w)).priority_score
                    = Row(submissions, Sub(w)).priority_score
               /\ Row(submissions', Sub(w)).forensics_data
                    = Some(ForensicsData(analysis_results[w]))]_vars
C29_Witness ==
  \E w \in Workers :
    /\ pc[w] = "log"
    /\ Found(w)
    /\ Status(submissions, Sub(w)) = "completed"
    /\ Row(submissions, Sub(w)).priority_score # 66
    /\ Row(submissions, Sub(w)).forensics_data
         = Some(ForensicsData(analysis_results[w]))

\* C30: the combiner is order-independent: once it has run on a list of
\* results, exchanging any two entries of the list (and so any permutation)
\* gives the same overall verdict, the same confidence, the same flag set and
\* the same summary counts.
Swap(rs, i, j) == [rs EXCEPT ![i] = rs[j], ![j] = rs[i]]
C30_OrderIndependent ==
  \A w \in Workers :
    Combined(w)
      => \A i, j \in 1..Len(test_results[w]) :
           LET rs == test_results[w]
               p == Swap(rs, i, j)
           IN /\ CombineTestResults(p).overall_verdict
                   = CombineTestResults(rs).overall_verdict
              /\ CombineTestResults(p).flags = CombineTestResults(rs).flags
              /\ CombineTestResults(p).test_summary
                   = CombineTestResults(rs).test_summary
              /\ FloatConfidence(p) = FloatConfidence(rs)

====
